---- MODULE Spec2Model ----
(***************************************************************************)
(* Model of src/app.py: the monthly sales forecast dashboard.              *)
(*                                                                         *)
(* The script runs top to bottom once per user interaction.  One run is    *)
(* modelled as a state machine whose program counter pc walks through the  *)
(* numbered sections of the script.  The three st.multiselect widgets are  *)
(* inputs: each returns a set of category values.  st.stop() and an        *)
(* uncaught exception both end the run.                                    *)
(*                                                                         *)
(* hecho records the sections that have started in the run, mensaje the    *)
(* st.error / st.warning shown (or the uncaught exception).                *)
(*                                                                         *)
(* A multiselect is modelled as returning any subset of the values of its  *)
(* dimension, offered or not: the script itself does not rely on the       *)
(* widget and guards against an empty result at line 100.  SelValidas      *)
(* singles out the runs in which every pick was among the options offered. *)
(*                                                                         *)
(* A sheet may hold empty cells: NaN in a category column, NaT in FECHA.   *)
(* With a NaT anywhere in FECHA the Año column is float64, so the year     *)
(* text built at lines 133-134 reads "2025.0"; whether pd.date_range       *)
(* accepts it depends on the installed parser and both outcomes are kept.  *)
(* With no dated row left the text is "nan" and pd.date_range raises.      *)
(*                                                                         *)
(* Abstractions:                                                           *)
(*  - a date is the tuple <<year, month>>; the day of the month is never   *)
(*    read by the script (only .dt.month and .dt.year are).  NaT is the    *)
(*    missing date, NaN the missing category value;                        *)
(*  - amounts are integers and a mean is the exact fraction num/den        *)
(*    (pandas computes it in float64);                                     *)
(*  - the order of strings is given by Alfabeto.                           *)
(***************************************************************************)
EXTENDS Integers, Sequences, FiniteSets, TLC

VARIABLES pc, hecho, mensaje, df,
          todos_paises, sel_paises,
          clientes_disponibles, sel_clientes,
          productos_disponibles, sel_productos,
          df_filtrado, ventas_mensuales_agrupadas,
          promedios_por_mes, pronostico_df

vars == <<pc, hecho, mensaje, df, todos_paises, sel_paises,
          clientes_disponibles, sel_clientes,
          productos_disponibles, sel_productos,
          df_filtrado, ventas_mensuales_agrupadas,
          promedios_por_mes, pronostico_df>>

----------------------------------------------------------------------------
(* Bounds and input universes                                              *)

MaxRows == 3

NaN == "NaN"
NaT == <<0, 0>>

Paises == {"MX", "US"}
Clientes == {"A", "B"}
Productos == {"X", "Y"}

\* Python's order on the strings used as category values.
Alfabeto == <<"A", "B", "MX", "US", "X", "Y">>

Fila(p, c, pr, f, t) ==
    [PAIS |-> p, CLIENTE |-> c, PRODUCTO |-> pr, FECHA |-> f, TOTAL |-> t]

\* The rows a loaded sheet is built from.
RecordPool ==
    { Fila("US", "A", "X", <<2023, 1>>, 100),
      Fila("US", "A", "Y", <<2024, 1>>, 300),
      Fila("US", "B", "X", <<2024, 2>>, 50),
      Fila("MX", "B", "Y", <<2023, 1>>, 20),
      Fila("MX", "A", "X", <<2024, 2>>, 7),
      Fila(NaN,  "A", "X", <<2023, 1>>, 5),
      Fila("US", NaN, "Y", <<2024, 1>>, 11),
      Fila("MX", "B", NaN, <<2023, 2>>, 3),
      Fila("US", "A", "X", NaT, 9),
      Fila(NaN,  "B", NaN, NaT, 4) }

DataSets == UNION { [1..n -> RecordPool] : n \in 0..MaxRows }

----------------------------------------------------------------------------
(* pandas / Python helpers                                                 *)

RECURSIVE SumSeq(_)
SumSeq(s) == IF s = <<>> THEN 0 ELSE Head(s) + SumSeq(Tail(s))

Range(s) == { s[i] : i \in 1..Len(s) }

Rank(v) == CHOOSE i \in 1..Len(Alfabeto) : Alfabeto[i] = v

\* Series.dt.year / Series.dt.month: NaN (written 0) for NaT.
DtYear(f) == f[1]
DtMonth(f) == f[2]
IsNaNNum(x) == x = 0

\* df[col]
Columna(d, col) == [i \in 1..Len(d) |-> d[i][col]]

\* Series.dropna()
DropNa(s) == LET NoNulo(v) == v # NaN IN SelectSeq(s, NoNulo)

\* Series.unique(): distinct values in order of first appearance
RECURSIVE Unique(_)
Unique(s) ==
    IF s = <<>> THEN <<>>
    ELSE LET ini == Unique(SubSeq(s, 1, Len(s) - 1))
             ult == s[Len(s)]
         IN IF ult \in Range(ini) THEN ini ELSE Append(ini, ult)

\* insertion of v into the ascending list s
RECURSIVE Insertar(_, _)
Insertar(s, v) ==
    IF s = <<>> THEN <<v>>
    ELSE IF Rank(v) < Rank(Head(s)) THEN <<v>> \o s
    ELSE <<Head(s)>> \o Insertar(Tail(s), v)

\* sorted(...)
RECURSIVE Sorted(_)
Sorted(s) == IF s = <<>> THEN <<>>
             ELSE Insertar(Sorted(SubSeq(s, 1, Len(s) - 1)), s[Len(s)])

\* Series.isin(values): a missing value is in no selection
Isin(v, sel) == v # NaN /\ v \in sel

\* df[df[col].isin(sel)]
FiltrarIsin(d, col, sel) ==
    LET Pasa(r) == Isin(r[col], sel) IN SelectSeq(d, Pasa)

----------------------------------------------------------------------------
(* Section 4: cascading option lists                                       *)

\* sorted(frame[col].dropna().unique())
Opciones(d, col) == Sorted(Unique(DropNa(Columna(d, col))))

\* mutant: the client options are read from the whole sheet
DfFiltradoPais_Mut(d, sp) == d

\* df_filtrado_pais: df restricted to the selected countries, or df
DfFiltradoPais(d, sp) ==
    IF sp # {} THEN FiltrarIsin(d, "PAIS", sp) ELSE d

\* mutant: the client filter starts from df and forgets the country filter
DfFiltradoCliente_Mut(d, sp, sc) ==
    IF sc # {} THEN FiltrarIsin(d, "CLIENTE", sc) ELSE DfFiltradoPais(d, sp)

\* df_filtrado_cliente: df_filtrado_pais restricted to the selected clients
DfFiltradoCliente(d, sp, sc) ==
    IF sc # {} THEN FiltrarIsin(DfFiltradoPais(d, sp), "CLIENTE", sc)
    ELSE DfFiltradoPais(d, sp)

\* mutant: each step filters df instead of the frame filtered so far
DfFiltrado_Mut(d, sp, sc, spr) ==
    LET f1 == IF sp # {} THEN FiltrarIsin(d, "PAIS", sp) ELSE d
        f2 == IF sc # {} THEN FiltrarIsin(d, "CLIENTE", sc) ELSE f1
        f3 == IF spr # {} THEN FiltrarIsin(d, "PRODUCTO", spr) ELSE f2
    IN f3

\* mutant: rows with a missing category are dropped before filtering
DfFiltrado_SinNulos(d, sp, sc, spr) ==
    LET Completa(r) == r.PAIS # NaN /\ r.CLIENTE # NaN /\ r.PRODUCTO # NaN
        f0 == SelectSeq(d, Completa)
        f1 == IF sp # {} THEN FiltrarIsin(f0, "PAIS", sp) ELSE f0
        f2 == IF sc # {} THEN FiltrarIsin(f1, "CLIENTE", sc) ELSE f1
        f3 == IF spr # {} THEN FiltrarIsin(f2, "PRODUCTO", spr) ELSE f2
    IN f3

(* Section 5: the definitive filter                                        *)
DfFiltrado(d, sp, sc, spr) ==
    LET f1 == IF sp # {} THEN FiltrarIsin(d, "PAIS", sp) ELSE d
        f2 == IF sc # {} THEN FiltrarIsin(f1, "CLIENTE", sc) ELSE f1
        f3 == IF spr # {} THEN FiltrarIsin(f2, "PRODUCTO", spr) ELSE f2
    IN f3

----------------------------------------------------------------------------
(* Section 6-7: monthly totals                                             *)

\* groupby keys: rows with a NaN key are left out (dropna=True)
Claves(d) ==
    { <<d[i].Ano, d[i].Mes>> : i \in { j \in 1..Len(d) :
          ~IsNaNNum(d[j].Ano) /\ ~IsNaNNum(d[j].Mes) } }

ClaveMenor(a, b) == a[1] < b[1] \/ (a[1] = b[1] /\ a[2] < b[2])

\* the keys in ascending order (groupby sort=True)
RECURSIVE OrdenarClaves(_)
OrdenarClaves(S) ==
    IF S = {} THEN <<>>
    ELSE LET mn == CHOOSE k \in S : \A j \in S \ {k} : ClaveMenor(k, j)
         IN <<mn>> \o OrdenarClaves(S \ {mn})

\* mutant: .first() instead of .sum()
SumaGrupo_Mut(d, k) ==
    LET EnGrupo(r) == r.Ano = k[1] /\ r.Mes = k[2]
    IN Head(Columna(SelectSeq(d, EnGrupo), "TOTAL"))

\* ['TOTAL VENDIDO'].sum() of one group
SumaGrupo(d, k) ==
    LET EnGrupo(r) == r.Ano = k[1] /\ r.Mes = k[2]
    IN SumSeq(Columna(SelectSeq(d, EnGrupo), "TOTAL"))

\* ventas_mensuales_agrupadas, with Fecha_Mes = first day of the month
VentasMensuales(d) ==
    LET ks == OrdenarClaves(Claves(d))
    IN [i \in 1..Len(ks) |->
           [Ano |-> ks[i][1], Mes |-> ks[i][2],
            Ventas |-> SumaGrupo(d, ks[i]),
            Fecha_Mes |-> <<ks[i][1], ks[i][2], 1>>]]

----------------------------------------------------------------------------
(* Section 8: historical mean per calendar month                           *)

Meses == 1..12

\* Series.mean() of a non-empty series, as an exact fraction
Mean(s) == [num |-> SumSeq(s), den |-> Len(s)]

\* fillna(0)
Cero == [num |-> 0, den |-> 1]

\* mutant: the divisor is the number of years of the whole series
PromediosPorMes_Mut(v) ==
    [m \in Meses |->
        LET DelMes(g) == g.Mes = m
            grupo == Columna(SelectSeq(v, DelMes), "Ventas")
        IN IF grupo = <<>> THEN Cero
           ELSE [num |-> SumSeq(grupo),
                 den |-> Cardinality(Range(Columna(v, "Ano")))]]

\* groupby('Mes')['Ventas Mensuales'].mean().reindex(range(1, 13)).fillna(0)
PromediosPorMes(v) ==
    [m \in Meses |->
        LET DelMes(g) == g.Mes = m
            grupo == Columna(SelectSeq(v, DelMes), "Ventas")
        IN IF grupo = <<>> THEN Cero ELSE Mean(grupo)]

----------------------------------------------------------------------------
(* Section 9: forecast for the next year                                   *)

\* the 'Año' column is float64 as soon as one FECHA of the sheet is NaT
AnoEsFloat(d) == \E i \in 1..Len(d) : d[i].FECHA = NaT

\* ventas_mensuales_agrupadas['Año'].max(): NaN for an empty column
UltimoAno(v) ==
    IF v = <<>> THEN 0
    ELSE CHOOSE y \in Range(Columna(v, "Ano")) :
             \A z \in Range(Columna(v, "Ano")) : z <= y

\* proximo_ano = ultimo_ano + 1 (NaN + 1 = NaN)
ProximoAno(v) == IF IsNaNNum(UltimoAno(v)) THEN 0 ELSE UltimoAno(v) + 1

\* f"{proximo_ano}": "2025" for an int, "2025.0" for a float, "nan" for NaN
FormatoAno(y, esFloat) ==
    IF IsNaNNum(y) THEN [forma |-> "nan", valor |-> 0]
    ELSE IF esFloat THEN [forma |-> "float", valor |-> y]
    ELSE [forma |-> "int", valor |-> y]

\* How pd.date_range reads the start/end strings built from the year text:
\* "nan-01-01" is no date (ValueError); "2025.0-01-01" is not ISO and goes
\* to the fallback parser, whose verdict depends on the installed version;
\* "2025-01-01" is a date.
ResultadosParse(txt) ==
    IF txt.forma = "nan" THEN {"error"}
    ELSE IF txt.forma = "float" THEN {"error", "ok"}
    ELSE {"ok"}

\* pd.date_range(start=y-m1-01, end=y-m2-01, freq='MS')
DateRangeMS(y, m1, m2) == [i \in 1..(m2 - m1 + 1) |-> <<y, m1 + i - 1, 1>>]

\* meses_futuros
MesesFuturos(y) == DateRangeMS(y, 1, 12)

\* pronostico_df: Fecha_Mes, Mes and the mapped mean
PronosticoDf(y, prom) ==
    LET mf == MesesFuturos(y)
    IN [i \in 1..Len(mf) |->
           [Fecha_Mes |-> mf[i], Mes |-> mf[i][2],
            Pronostico |-> prom[mf[i][2]]]]

----------------------------------------------------------------------------
(* The run                                                                 *)

Init ==
    /\ pc = "cargar"
    /\ hecho = {}
    /\ mensaje = "ninguno"
    /\ df = <<>>
    /\ todos_paises = <<>> /\ sel_paises = {}
    /\ clientes_disponibles = <<>> /\ sel_clientes = {}
    /\ productos_disponibles = <<>> /\ sel_productos = {}
    /\ df_filtrado = <<>>
    /\ ventas_mensuales_agrupadas = <<>>
    /\ promedios_por_mes = <<>>
    /\ pronostico_df = <<>>

\* line 27: df = cargar_datos(RUTA_ARCHIVO)
cargar_datos ==
    /\ pc = "cargar"
    /\ \E d \in DataSets : df' = d
    /\ pc' = "guard_df"
    /\ hecho' = hecho \cup {"cargar"}
    /\ UNCHANGED <<mensaje, todos_paises, sel_paises, clientes_disponibles,
                   sel_clientes, productos_disponibles, sel_productos,
                   df_filtrado, ventas_mensuales_agrupadas,
                   promedios_por_mes, pronostico_df>>

\* mutant: the guard never fires
DfVacio_Mut(d) == FALSE

\* df.empty at line 29
DfVacio(d) == Len(d) = 0

\* lines 29-31: st.error and st.stop
StopDfVacio ==
    /\ pc = "guard_df"
    /\ DfVacio(df)
    /\ mensaje' = "error_df_vacio"
    /\ pc' = "stopped"
    /\ UNCHANGED <<hecho, df, todos_paises, sel_paises, clientes_disponibles,
                   sel_clientes, productos_disponibles, sel_productos,
                   df_filtrado, ventas_mensuales_agrupadas,
                   promedios_por_mes, pronostico_df>>

\* lines 34-35: the Mes and Año columns
Preprocesamiento ==
    /\ pc = "guard_df"
    /\ ~DfVacio(df)
    /\ df' = [i \in 1..Len(df) |->
                 [PAIS |-> df[i].PAIS, CLIENTE |-> df[i].CLIENTE,
                  PRODUCTO |-> df[i].PRODUCTO, FECHA |-> df[i].FECHA,
                  TOTAL |-> df[i].TOTAL,
                  Mes |-> DtMonth(df[i].FECHA), Ano |-> DtYear(df[i].FECHA)]]
    /\ pc' = "paises"
    /\ hecho' = hecho \cup {"preprocesar"}
    /\ UNCHANGED <<mensaje, todos_paises, sel_paises, clientes_disponibles,
                   sel_clientes, productos_disponibles, sel_productos,
                   df_filtrado, ventas_mensuales_agrupadas,
                   promedios_por_mes, pronostico_df>>

\* lines 43-50: country options and the country multiselect
FiltroPais ==
    /\ pc = "paises"
    /\ todos_paises' = Opciones(df, "PAIS")
    /\ \E s \in SUBSET Paises : sel_paises' = s
    /\ pc' = "clientes"
    /\ hecho' = hecho \cup {"paises"}
    /\ UNCHANGED <<mensaje, df, clientes_disponibles,
                   sel_clientes, productos_disponibles, sel_productos,
                   df_filtrado, ventas_mensuales_agrupadas,
                   promedios_por_mes, pronostico_df>>

\* lines 54-66: client options and the client multiselect
FiltroCliente ==
    /\ pc = "clientes"
    /\ clientes_disponibles' = Opciones(DfFiltradoPais(df, sel_paises), "CLIENTE")
    /\ \E s \in SUBSET Clientes : sel_clientes' = s
    /\ pc' = "productos"
    /\ hecho' = hecho \cup {"clientes"}
    /\ UNCHANGED <<mensaje, df, todos_paises, sel_paises,
                   productos_disponibles, sel_productos,
                   df_filtrado, ventas_mensuales_agrupadas,
                   promedios_por_mes, pronostico_df>>

\* lines 70-82: product options and the product multiselect
FiltroProducto ==
    /\ pc = "productos"
    /\ productos_disponibles' =
           Opciones(DfFiltradoCliente(df, sel_paises, sel_clientes), "PRODUCTO")
    /\ \E s \in SUBSET Productos : sel_productos' = s
    /\ pc' = "filtrar"
    /\ hecho' = hecho \cup {"productos"}
    /\ UNCHANGED <<mensaje, df, todos_paises, sel_paises,
                   clientes_disponibles, sel_clientes,
                   df_filtrado, ventas_mensuales_agrupadas,
                   promedios_por_mes, pronostico_df>>

\* lines 86-98: df_filtrado
AplicarFiltros ==
    /\ pc = "filtrar"
    /\ df_filtrado' = DfFiltrado(df, sel_paises, sel_clientes, sel_productos)
    /\ pc' = "guard_filtrado"
    /\ hecho' = hecho \cup {"filtrar"}
    /\ UNCHANGED <<mensaje, df, todos_paises, sel_paises,
                   clientes_disponibles, sel_clientes,
                   productos_disponibles, sel_productos,
                   ventas_mensuales_agrupadas,
                   promedios_por_mes, pronostico_df>>

\* mutant: the guard never fires
FiltradoVacio_Mut(d) == FALSE

\* df_filtrado.empty at line 100
FiltradoVacio(d) == Len(d) = 0

\* lines 100-102: st.warning and st.stop
StopSinDatos ==
    /\ pc = "guard_filtrado"
    /\ FiltradoVacio(df_filtrado)
    /\ mensaje' = "warning_sin_datos"
    /\ pc' = "stopped"
    /\ UNCHANGED <<hecho, df, todos_paises, sel_paises, clientes_disponibles,
                   sel_clientes, productos_disponibles, sel_productos,
                   df_filtrado, ventas_mensuales_agrupadas,
                   promedios_por_mes, pronostico_df>>

\* lines 105-117: monthly totals and Fecha_Mes
AgregarVentasMensuales ==
    /\ pc = "guard_filtrado"
    /\ ~FiltradoVacio(df_filtrado)
    /\ ventas_mensuales_agrupadas' = VentasMensuales(df_filtrado)
    /\ pc' = "promedios"
    /\ hecho' = hecho \cup {"agregar"}
    /\ UNCHANGED <<mensaje, df, todos_paises, sel_paises,
                   clientes_disponibles, sel_clientes,
                   productos_disponibles, sel_productos,
                   df_filtrado, promedios_por_mes, pronostico_df>>

\* lines 120-126: promedios_por_mes
PromedioHistorico ==
    /\ pc = "promedios"
    /\ promedios_por_mes' = PromediosPorMes(ventas_mensuales_agrupadas)
    /\ pc' = "pronostico"
    /\ hecho' = hecho \cup {"promedios"}
    /\ UNCHANGED <<mensaje, df, todos_paises, sel_paises,
                   clientes_disponibles, sel_clientes,
                   productos_disponibles, sel_productos,
                   df_filtrado, ventas_mensuales_agrupadas, pronostico_df>>

\* lines 129-142: the forecast frame, or the exception of pd.date_range
ConstruirPronostico ==
    /\ pc = "pronostico"
    /\ hecho' = hecho \cup {"pronostico"}
    /\ LET y == ProximoAno(ventas_mensuales_agrupadas)
           txt == FormatoAno(y, AnoEsFloat(df))
       IN \E res \in ResultadosParse(txt) :
            IF res = "ok"
            THEN /\ pronostico_df' = PronosticoDf(txt.valor, promedios_por_mes)
                 /\ pc' = "mostrar"
                 /\ mensaje' = mensaje
            ELSE /\ pronostico_df' = pronostico_df
                 /\ pc' = "crashed"
                 /\ mensaje' = "excepcion"
    /\ UNCHANGED <<df, todos_paises, sel_paises,
                   clientes_disponibles, sel_clientes,
                   productos_disponibles, sel_productos,
                   df_filtrado, ventas_mensuales_agrupadas, promedios_por_mes>>

\* lines 145-223: the tables and the chart
Mostrar ==
    /\ pc = "mostrar"
    /\ pc' = "done"
    /\ hecho' = hecho \cup {"mostrar"}
    /\ UNCHANGED <<mensaje, df, todos_paises, sel_paises,
                   clientes_disponibles, sel_clientes,
                   productos_disponibles, sel_productos,
                   df_filtrado, ventas_mensuales_agrupadas,
                   promedios_por_mes, pronostico_df>>

Next ==
    \/ cargar_datos
    \/ StopDfVacio
    \/ Preprocesamiento
    \/ FiltroPais
    \/ FiltroCliente
    \/ FiltroProducto
    \/ AplicarFiltros
    \/ StopSinDatos
    \/ AgregarVentasMensuales
    \/ PromedioHistorico
    \/ ConstruirPronostico
    \/ Mostrar

Spec == Init /\ [][Next]_vars

----------------------------------------------------------------------------
(* Vocabulary of the properties                                            *)

Filas == 1..Len(df)

\* the claim's reading of one selection: empty, or the value is a member
Admite(sel, v) == sel = {} \/ v \in sel

\* the row passes the selections of all three dimensions
Cumple(r) ==
    /\ Admite(sel_paises, r.PAIS)
    /\ Admite(sel_clientes, r.CLIENTE)
    /\ Admite(sel_productos, r.PRODUCTO)

\* ascending without repetition
EstrictamenteOrdenada(s) ==
    \A i \in 1..(Len(s) - 1) : Rank(s[i]) < Rank(s[i + 1])

ConFecha(r) == r.FECHA # NaT

TieneNulo(r) == r.PAIS = NaN \/ r.CLIENTE = NaN \/ r.PRODUCTO = NaN

\* every selection was picked among the options offered in this run
SelValidas ==
    /\ sel_paises \subseteq Range(todos_paises)
    /\ sel_clientes \subseteq Range(clientes_disponibles)
    /\ sel_productos \subseteq Range(productos_disponibles)

EtapasPosteriores == {"agregar", "promedios", "pronostico", "mostrar"}

----------------------------------------------------------------------------
\* C1: each option list is the ascending, duplicate-free list of the non-null
\* values of its dimension among the rows consistent with the upstream
\* selections: countries from all rows, clients from the rows admitted by the
\* country selection, products from the rows admitted by the country and the
\* client selection.
C1_Opciones ==
    /\ "paises" \in hecho =>
         /\ EstrictamenteOrdenada(todos_paises)
         /\ Range(todos_paises) = { df[i].PAIS : i \in Filas } \ {NaN}
    /\ "clientes" \in hecho =>
         /\ EstrictamenteOrdenada(clientes_disponibles)
         /\ Range(clientes_disponibles) =
              { df[i].CLIENTE :
                  i \in { j \in Filas : Admite(sel_paises, df[j].PAIS) } } \ {NaN}
    /\ "productos" \in hecho =>
         /\ EstrictamenteOrdenada(productos_disponibles)
         /\ Range(productos_disponibles) =
              { df[i].PRODUCTO :
                  i \in { j \in Filas : /\ Admite(sel_paises, df[j].PAIS)
                                        /\ Admite(sel_clientes, df[j].CLIENTE) } }
              \ {NaN}

\* the cascade has narrowed both the client and the product list
C1_Witness ==
    /\ "productos" \in hecho
    /\ sel_paises # {} /\ sel_clientes # {}
    /\ productos_disponibles # <<>>
    /\ Range(clientes_disponibles) # { df[i].CLIENTE : i \in Filas } \ {NaN}
    /\ Range(productos_disponibles) # { df[i].PRODUCTO : i \in Filas } \ {NaN}

\* C2: the filtered frame is exactly the rows that pass every non-empty
\* selection, in their order; with three empty selections it is df itself.
C2_Filtro ==
    "filtrar" \in hecho =>
        /\ df_filtrado = SelectSeq(df, Cumple)
        /\ (sel_paises = {} /\ sel_clientes = {} /\ sel_productos = {}
              => df_filtrado = df)

\* two dimensions are constrained and the filter kept some rows, not all
C2_Witness ==
    /\ "filtrar" \in hecho
    /\ sel_paises # {} /\ sel_clientes # {}
    /\ 0 < Len(df_filtrado) /\ Len(df_filtrado) < Len(df)

\* the dated rows of the filtered frame
Fechadas == SelectSeq(df_filtrado, ConFecha)

\* the (year, month) pairs of the dated rows of the filtered frame
ParesPresentes == { <<Fechadas[i].Ano, Fechadas[i].Mes>> : i \in 1..Len(Fechadas) }

ParesAgrupados ==
    { <<ventas_mensuales_agrupadas[i].Ano, ventas_mensuales_agrupadas[i].Mes>> :
        i \in 1..Len(ventas_mensuales_agrupadas) }

TotalAgrupado == SumSeq(Columna(ventas_mensuales_agrupadas, "Ventas"))

\* C3 (as stated): one group per (year, month) pair present, and the group
\* totals add up to the sum of the amounts of the whole filtered frame.
C3_Original ==
    "agregar" \in hecho =>
        /\ ParesAgrupados = ParesPresentes
        /\ Len(ventas_mensuales_agrupadas) = Cardinality(ParesPresentes)
        /\ TotalAgrupado = SumSeq(Columna(df_filtrado, "TOTAL"))

\* C3 (amended): one group per (year, month) pair present, and the group
\* totals add up to the sum of the amounts of the filtered rows that have a
\* date; a row whose date is missing is in no group.
C3_Conservacion ==
    "agregar" \in hecho =>
        /\ ParesAgrupados = ParesPresentes
        /\ Len(ventas_mensuales_agrupadas) = Cardinality(ParesPresentes)
        /\ TotalAgrupado = SumSeq(Columna(Fechadas, "TOTAL"))

\* two filtered rows fell into one monthly group
C3_Witness ==
    /\ "agregar" \in hecho
    /\ Len(Fechadas) = 2
    /\ Len(ventas_mensuales_agrupadas) = 1

\* the filtered rows of calendar month m that have a date
FilasDelMes(m) ==
    LET DelMes(r) == ConFecha(r) /\ r.Mes = m IN SelectSeq(df_filtrado, DelMes)

\* the years observed for calendar month m in the filter scope
AnosDelMes(m) == { FilasDelMes(m)[i].Ano : i \in 1..Len(FilasDelMes(m)) }

\* C4: promedios_por_mes has an entry for each month 1..12; with k >= 1 years
\* observed for month m in the filtered data the entry is (sum of the amounts
\* of month m) / k, and with k = 0 it is 0.
C4_Promedios ==
    "promedios" \in hecho =>
        /\ DOMAIN promedios_por_mes = 1..12
        /\ \A m \in 1..12 :
             LET k == Cardinality(AnosDelMes(m))
                 S == SumSeq(Columna(FilasDelMes(m), "TOTAL"))
                 p == promedios_por_mes[m]
             IN /\ p.den > 0
                /\ IF k >= 1 THEN p.num * k = S * p.den ELSE p.num = 0

\* uneven coverage: one month observed in two years, another in one, a
\* third in none
C4_Witness ==
    /\ "promedios" \in hecho
    /\ \E m1, m2, m3 \in 1..12 :
         /\ Cardinality(AnosDelMes(m1)) = 2
         /\ Cardinality(AnosDelMes(m2)) = 1
         /\ Cardinality(AnosDelMes(m3)) = 0
         /\ promedios_por_mes[m1].den = 2
         /\ promedios_por_mes[m2].den = 1

\* C5 (as stated): once the script has reached section 9 there are 12 forecast
\* points, for the months 1..12 of (latest filtered year + 1), dated the first
\* of each month, each carrying the mean of its calendar month.
C5_Original ==
    "pronostico" \in hecho =>
        /\ Len(pronostico_df) = 12
        /\ \A i \in 1..Len(pronostico_df) :
             /\ pronostico_df[i].Fecha_Mes =
                  <<UltimoAno(ventas_mensuales_agrupadas) + 1, i, 1>>
             /\ pronostico_df[i].Mes = i
             /\ pronostico_df[i].Pronostico = promedios_por_mes[i]

\* C5, for the runs in which section 9 completes: the 12 points are there.
PronosticoCompleto ==
    pc \in {"mostrar", "done"} =>
        /\ Len(pronostico_df) = 12
        /\ \A i \in 1..Len(pronostico_df) :
             /\ pronostico_df[i].Fecha_Mes =
                  <<UltimoAno(ventas_mensuales_agrupadas) + 1, i, 1>>
             /\ pronostico_df[i].Mes = i
             /\ pronostico_df[i].Pronostico = promedios_por_mes[i]

\* C6: an empty filter result ends the run with the "no data" warning, and
\* none of aggregation, averaging, forecast and display is executed.
C6_SinDatos ==
    ("filtrar" \in hecho /\ df_filtrado = <<>>) =>
        /\ pc \in {"guard_filtrado", "stopped"}
        /\ pc = "stopped" => mensaje = "warning_sin_datos"
        /\ hecho \cap EtapasPosteriores = {}
        /\ ventas_mensuales_agrupadas = <<>>
        /\ promedios_por_mes = <<>>
        /\ pronostico_df = <<>>

\* country US and client B, which no row of the sheet has: the run stopped
C6_Witness ==
    /\ pc = "stopped"
    /\ mensaje = "warning_sin_datos"
    /\ sel_paises = {"US"} /\ sel_clientes = {"B"}
    /\ \A i \in Filas : df[i].CLIENTE # "B"
    /\ \E i \in Filas : df[i].PAIS = "US"

\* C7 (as stated): when no filtered row has a date, section 9 ends in a
\* defined halt, not in an exception and not with a forecast.
C7_Original ==
    ( /\ "pronostico" \in hecho
      /\ df_filtrado # <<>>
      /\ \A i \in 1..Len(df_filtrado) : df_filtrado[i].FECHA = NaT )
    => (pc = "stopped" /\ mensaje # "excepcion")

\* the rows of df that pass and fall in the same month as row i
TotalDelMesDe(i) ==
    LET Igual(r) == Cumple(r) /\ r.Ano = df[i].Ano /\ r.Mes = df[i].Mes
    IN SumSeq(Columna(SelectSeq(df, Igual), "TOTAL"))

NoOfreceNulos ==
    /\ NaN \notin Range(todos_paises)
    /\ NaN \notin Range(clientes_disponibles)
    /\ NaN \notin Range(productos_disponibles)

\* C8 (as stated): a row with a null category is never offered as an option;
\* it is in the filtered frame exactly when it passes the selections, and
\* then its amount is part of the total of its month.
C8_Original ==
    /\ NoOfreceNulos
    /\ "agregar" \in hecho =>
         \A i \in { j \in Filas : TieneNulo(df[j]) } :
            /\ Cumple(df[i]) <=> df[i] \in Range(df_filtrado)
            /\ Cumple(df[i]) =>
                 \E n \in 1..Len(ventas_mensuales_agrupadas) :
                    LET g == ventas_mensuales_agrupadas[n]
                    IN /\ g.Ano = df[i].Ano /\ g.Mes = df[i].Mes
                       /\ g.Ventas = TotalDelMesDe(i)

\* C8 (amended): as stated, for the rows that have a date; a row whose date
\* is missing is in no monthly total.
C8_Nulos ==
    /\ NoOfreceNulos
    /\ "agregar" \in hecho =>
         \A i \in { j \in Filas : TieneNulo(df[j]) } :
            /\ Cumple(df[i]) <=> df[i] \in Range(df_filtrado)
            /\ (Cumple(df[i]) /\ ConFecha(df[i])) =>
                 \E n \in 1..Len(ventas_mensuales_agrupadas) :
                    LET g == ventas_mensuales_agrupadas[n]
                    IN /\ g.Ano = df[i].Ano /\ g.Mes = df[i].Mes
                       /\ g.Ventas = TotalDelMesDe(i)
            /\ ~ConFecha(df[i]) =>
                 \A n \in 1..Len(ventas_mensuales_agrupadas) :
                    ventas_mensuales_agrupadas[n].Ano # df[i].Ano

\* a dated row with a null client was summed with another row of its month
\* while a selection was active on another dimension
C8_Witness ==
    /\ "agregar" \in hecho
    /\ sel_paises # {}
    /\ \E i \in 1..Len(df_filtrado) :
         /\ df_filtrado[i].CLIENTE = NaN
         /\ ConFecha(df_filtrado[i])
    /\ Len(df_filtrado) = 2
    /\ Len(ventas_mensuales_agrupadas) = 1

\* C9: a sheet without rows ends the run with the error before any option
\* list, filter, aggregation or forecast.
C9_FuenteVacia ==
    ("cargar" \in hecho /\ df = <<>>) =>
        /\ pc \in {"guard_df", "stopped"}
        /\ pc = "stopped" => mensaje = "error_df_vacio"
        /\ hecho = {"cargar"}
        /\ todos_paises = <<>> /\ clientes_disponibles = <<>>
        /\ productos_disponibles = <<>>
        /\ df_filtrado = <<>> /\ ventas_mensuales_agrupadas = <<>>
        /\ promedios_por_mes = <<>> /\ pronostico_df = <<>>

C9_Witness ==
    /\ pc = "stopped"
    /\ mensaje = "error_df_vacio"
    /\ df = <<>>

\* C10: when every selection was picked among the options offered in the
\* run, the filtered frame is not empty and the run does not end in the
\* "no data" stop.
C10_SeleccionValida ==
    ("filtrar" \in hecho /\ SelValidas) =>
        /\ df_filtrado # <<>>
        /\ pc # "stopped"
        /\ mensaje # "warning_sin_datos"

\* all three dimensions constrained by offered options, aggregation reached
C10_Witness ==
    /\ "agregar" \in hecho
    /\ SelValidas
    /\ sel_paises # {} /\ sel_clientes # {} /\ sel_productos # {}

====
